---- MODULE Spec2Model ----
(***************************************************************************)
(* A model of translate-cli (hvpaiva/translate): the linear pipeline of    *)
(* main() -- flag handling, input resolution, credential resolution, one   *)
(* call of translate(), printing, clipboard copy -- for each of the three  *)
(* revisions of main() the repository holds:                               *)
(*   "main.go"    src/main.go                   (first positional only)    *)
(*   "part_000a"  src/unnamed/part_000:1-212    (arguments or stdin)       *)
(*   "part_000b"  src/unnamed/part_000:213-463  (adds -version, aliases)   *)
(* Strings the program inspects character by character (the text it joins  *)
(* and trims) are sequences of one-character strings; strings it only      *)
(* passes on (tokens, error messages) are TLA+ strings.                    *)
(***************************************************************************)
EXTENDS Integers, Sequences, FiniteSets, TLC

VARIABLES
    variant,          \* which revision of main() runs
    flags,            \* the parsed command line: flag values and flag.Args()
    pc,               \* position of main(): a stage, or the exit taken
    stdin,            \* what main() saw of standard input ("unread" if nothing)
    cfg,              \* what loadTokenFromConfig saw (consulted = FALSE if not called)
    textToTranslate,  \* main's textToTranslate
    token,            \* main's token
    requests,         \* the HTTP requests handed to client.Do, in order
    resp,             \* the outcome of client.Do ("none" before the call)
    translatedText,   \* main's translatedText
    err,              \* the error translate returned
    stdout,           \* lines written to standard output, in order
    clipboard,        \* texts written to the system clipboard, in order
    log,              \* lines written by package log, in order
    exitCode          \* the process exit status, -1 while it runs

vars == <<variant, flags, pc, stdin, cfg, textToTranslate, token, requests,
          resp, translatedText, err, stdout, clipboard, log, exitCode>>

----------------------------------------------------------------------------
(* Bounds of the model. *)

MaxArgs == 2
MaxLines == 2
MaxChoices == 2

(* net/http's StatusOK, as compared with resp.StatusCode. *)
StatusOK == 200

----------------------------------------------------------------------------
(* Value sets the inputs are drawn from. *)

SeqsUpTo(S, n) == UNION {[1..k -> S] : k \in 0..n}

Variants == {"main.go", "part_000a", "part_000b"}

(* Positional arguments and lines of standard input. *)
Words == {<<"H", "i">>, <<"y">>}
Lines == {<<"H", "i">>, <<>>}

FlagTokens == {"", "sk-flag"}
FileTokens == {"", "sk-file"}
ToLangs == {"en", "es"}

(* Message contents of the choices of a response. *)
Contents == {<<" ", "H", " ", "m", "\n">>, <<"H">>, <<"\t", " ">>}

ErrorObjects ==
    {[message |-> m, type |-> t] :
        m \in {"", "rate limit exceeded"}, t \in {"", "server_error"}}

StatusCodes == {200, 201, 500}


(* Standard input as main() can find it: Stat fails; a terminal (character  *)
(* device); or a pipe or file holding `lines`, of which the scanner         *)
(* delivers the first `stop` before Scan returns false: stop = Len(lines)   *)
(* is end of input, a smaller stop is a read error or a line longer than    *)
(* the scanner's buffer (scanner.Err() is then non-nil).                    *)
StdinEnvs ==
    {[stat |-> "err", lines |-> <<>>, stop |-> 0],
     [stat |-> "tty", lines |-> <<>>, stop |-> 0]}
    \cup UNION {{[stat |-> "pipe", lines |-> l, stop |-> k] : k \in 0..Len(l)} :
                    l \in SeqsUpTo(Lines, MaxLines)}

StdinUnread == [stat |-> "unread", lines |-> <<>>, stop |-> 0]

(* The configuration file as loadTokenFromConfig can find it. *)
CfgEnvs ==
    {[consulted |-> TRUE, homeOk |-> h, readOk |-> r, parseOk |-> p, api_token |-> t] :
        h \in BOOLEAN, r \in BOOLEAN, p \in BOOLEAN, t \in FileTokens}

CfgUnread ==
    [consulted |-> FALSE, homeOk |-> FALSE, readOk |-> FALSE, parseOk |-> FALSE,
     api_token |-> ""]

(* Response bodies: not JSON of the expected shape, or a JSON object with   *)
(* an optional "error" object and a "choices" array.                         *)
NoErrorObject == [message |-> "", type |-> ""]

Bodies ==
    {[valid |-> FALSE, hasError |-> FALSE, error |-> NoErrorObject, choices |-> <<>>]}
    \cup {[valid |-> TRUE, hasError |-> FALSE, error |-> NoErrorObject, choices |-> c] :
            c \in SeqsUpTo(Contents, MaxChoices)}
    \cup {[valid |-> TRUE, hasError |-> TRUE, error |-> e, choices |-> c] :
            e \in ErrorObjects, c \in SeqsUpTo(Contents, MaxChoices)}

EmptyBody == [valid |-> FALSE, hasError |-> FALSE, error |-> NoErrorObject, choices |-> <<>>]

(* Outcomes of client.Do and of reading the body: a transport error, or a   *)
(* response with a status code whose body can be read or not.               *)
Responses ==
    {[transport |-> "connection refused", status |-> 0, readOk |-> FALSE, body |-> EmptyBody]}
    \cup {[transport |-> "ok", status |-> s, readOk |-> FALSE, body |-> EmptyBody] :
            s \in StatusCodes}
    \cup {[transport |-> "ok", status |-> s, readOk |-> TRUE, body |-> b] :
            s \in StatusCodes, b \in Bodies}

NoResponse == [transport |-> "none", status |-> 0, readOk |-> FALSE, body |-> EmptyBody]

----------------------------------------------------------------------------
(* Errors: nil, or a message with the value formatted into it (%d) and the  *)
(* error wrapped by it (%w).                                                 *)

Nil == [isNil |-> TRUE, msg |-> "", code |-> 0, cause |-> ""]

NewError(m, c, w) == [isNil |-> FALSE, msg |-> m, code |-> c, cause |-> w]

----------------------------------------------------------------------------
(* Library functions, as the program uses them. *)

RECURSIVE Join(_, _)
(* strings.Join(elems, sep) *)
Join(elems, sep) ==
    IF Len(elems) = 0 THEN <<>>
    ELSE IF Len(elems) = 1 THEN elems[1]
    ELSE elems[1] \o sep \o Join(Tail(elems), sep)

(* unicode.IsSpace on the characters of the model *)
IsSpace(c) == c \in {" ", "\t", "\n", "\r"}

RECURSIVE TrimLeft(_)
TrimLeft(s) ==
    IF Len(s) > 0 /\ IsSpace(s[1]) THEN TrimLeft(Tail(s)) ELSE s

RECURSIVE TrimRight(_)
TrimRight(s) ==
    IF Len(s) > 0 /\ IsSpace(s[Len(s)]) THEN TrimRight(SubSeq(s, 1, Len(s) - 1)) ELSE s

(* TrimSpace with the trailing whitespace left in place. *)
TrimLeftOnly(s) == TrimLeft(s)

(* strings.TrimSpace(s) *)
TrimSpace(s) == TrimRight(TrimLeft(s))

----------------------------------------------------------------------------
(* loadTokenFromConfig: the token and the error it returns for a            *)
(* configuration file found as c.                                            *)
loadTokenFromConfig(c) ==
    IF ~c.homeOk THEN
        [token |-> "", err |-> NewError("failed to retrieve home directory: %w", 0, "no home")]
    ELSE IF ~c.readOk THEN
        [token |-> "", err |-> NewError("failed to read config file: %w", 0, "read")]
    ELSE IF ~c.parseOk THEN
        [token |-> "", err |-> NewError("failed to parse config file: %w", 0, "yaml")]
    ELSE IF c.api_token = "" THEN
        [token |-> "", err |-> NewError("API token not found in config file", 0, "")]
    ELSE [token |-> c.api_token, err |-> Nil]

----------------------------------------------------------------------------
(* translate *)

(* The request translate builds: POST to the chat-completion endpoint, two  *)
(* headers, and the JSON of a chatRequest with its two messages.             *)
BuildRequest(apiKey, fromLang, toLang, text) ==
    [method |-> "POST",
     url |-> "https://api.openai.com/v1/chat/completions",
     contentType |-> "application/json",
     authorization |-> <<"Bearer ", apiKey>>,
     body |-> [model |-> "gpt-4o-mini",
               messages |-> <<
                   [role |-> "system",
                    content |-> <<"You are a translator that only gives the translated text">>],
                   [role |-> "user",
                    content |-> <<"Translate this from ", fromLang, " to ", toLang, ": ">>
                                \o text] >>]]

(* client.Do(req) with the request sent a second time. *)
DoTwice(req) == <<req, req>>

(* client.Do(req): the requests that leave for the endpoint, one per call. *)
Do(req) == <<req>>

(* The status check with only 4xx and 5xx taken as failures. *)
StatusIsError(code) == code >= 400

(* resp.StatusCode != http.StatusOK *)
StatusNotOK(code) == code # StatusOK

(* json.Unmarshal(body, &chatResponse): an error, or the chatResponse with  *)
(* a missing "error" object left at its zero value.                          *)
Unmarshal(b) ==
    IF ~b.valid THEN
        [ok |-> FALSE, Choices |-> <<>>, Error |-> [Message |-> "", Type |-> ""]]
    ELSE
        [ok |-> TRUE,
         Choices |-> [i \in 1..Len(b.choices) |->
                        [Message |-> [Role |-> "assistant", Content |-> b.choices[i]]]],
         Error |-> IF b.hasError
                   THEN [Message |-> b.error.message, Type |-> b.error.type]
                   ELSE [Message |-> "", Type |-> ""]]

(* The error check made on the type field instead of the message. *)
HasAPIErrorByType(chatResponse) == chatResponse.Error.Type # ""

(* chatResponse.Error.Message != "" *)
HasAPIError(chatResponse) == chatResponse.Error.Message # ""

(* The extraction with the choices looked at before the error object. *)
ExtractChoicesFirst(chatResponse, verbose) ==
    IF Len(chatResponse.Choices) > 0 THEN
        [val |-> TrimSpace(chatResponse.Choices[1].Message.Content), err |-> Nil,
         log |-> <<>>]
    ELSE IF HasAPIError(chatResponse) THEN
        [val |-> <<>>, err |-> NewError(chatResponse.Error.Message, 0, ""),
         log |-> IF verbose THEN <<"OpenAI API Error: %s (Type: %s)">> ELSE <<>>]
    ELSE
        [val |-> <<>>, err |-> NewError("no translation found in response", 0, ""),
         log |-> <<>>]

(* The extraction with the return on an error object placed inside the     *)
(* verbose block: without verbose it falls through to the choices.          *)
ExtractReturnInVerbose(chatResponse, verbose) ==
    IF HasAPIError(chatResponse) /\ verbose THEN
        [val |-> <<>>, err |-> NewError(chatResponse.Error.Message, 0, ""),
         log |-> <<"OpenAI API Error: %s (Type: %s)">>]
    ELSE IF Len(chatResponse.Choices) > 0 THEN
        [val |-> TrimSpace(chatResponse.Choices[1].Message.Content), err |-> Nil,
         log |-> <<>>]
    ELSE
        [val |-> <<>>, err |-> NewError("no translation found in response", 0, ""),
         log |-> <<>>]

(* The part of translate that follows a parsed 200 response. *)
Extract(chatResponse, verbose) ==
    IF HasAPIError(chatResponse) THEN
        [val |-> <<>>, err |-> NewError(chatResponse.Error.Message, 0, ""),
         log |-> IF verbose THEN <<"OpenAI API Error: %s (Type: %s)">> ELSE <<>>]
    ELSE IF Len(chatResponse.Choices) > 0 THEN
        [val |-> TrimSpace(chatResponse.Choices[1].Message.Content), err |-> Nil,
         log |-> <<>>]
    ELSE
        [val |-> <<>>, err |-> NewError("no translation found in response", 0, ""),
         log |-> <<>>]

(* translate, from the outcome r of client.Do to what it returns and logs. *)
translate(verbose, r) ==
    LET payload == IF verbose THEN <<"Request Payload: %s">> ELSE <<>>
    IN  IF r.transport # "ok" THEN
            [val |-> <<>>,
             err |-> NewError("failed to execute HTTP request: %w", 0, r.transport),
             log |-> payload]
        ELSE IF StatusNotOK(r.status) THEN
            [val |-> <<>>,
             err |-> NewError("unexpected status code from OpenAI API: %d", r.status, ""),
             log |-> payload \o
                     (IF verbose
                      THEN <<"Response Status: %s", "Response Headers: %v",
                             "Response Body: %s">>
                      ELSE <<>>)]
        ELSE IF ~r.readOk THEN
            [val |-> <<>>,
             err |-> NewError("failed to read response body: %w", 0, "read"),
             log |-> payload]
        ELSE LET chatResponse == Unmarshal(r.body)
             IN  IF ~chatResponse.ok THEN
                     [val |-> <<>>,
                      err |-> NewError("failed to unmarshal response JSON: %w", 0, "json"),
                      log |-> payload]
                 ELSE LET x == Extract(chatResponse, verbose)
                      IN  [val |-> x.val, err |-> x.err, log |-> payload \o x.log]

----------------------------------------------------------------------------
(* main *)

(* The revisions that know the -version flag. *)
HasVersionFlag(v) == v = "part_000b"

(* Every revision giving up on an empty argument list. *)
RejectsNoArgsAlways(v) == TRUE

(* main.go ends with log.Fatal when flag.NArg() == 0; the later revisions   *)
(* turn to standard input instead.                                           *)
RejectsNoArgs(v) == v = "main.go"

(* The text taken from a non-empty argument list: flag.Arg(0) in main.go,   *)
(* strings.Join(args, " ") in the later revisions.                           *)
ArgsText(v, args) == IF v = "main.go" THEN args[1] ELSE Join(args, <<" ">>)

(* The scanner loop: the lines appended to input before Scan returns false. *)
ScanLines(env) == SubSeq(env.lines, 1, env.stop)

(* The text taken from standard input once Stat succeeded: the scanned      *)
(* lines joined when it is no character device, and "" when it is one.       *)
StdinText(env) ==
    IF env.stat = "pipe" THEN Join(ScanLines(env), <<" ">>) ELSE <<>>

(* The configuration file read whatever -a holds. *)
UsesConfigAlways(apiToken) == TRUE

(* *apiToken == "": the token comes from the configuration file. *)
UsesConfig(apiToken) == apiToken = ""

(* The copy made whatever the option says. *)
ShouldCopyAlways(copyOutput) == TRUE

(* if *copyOutput *)
ShouldCopy(copyOutput) == copyOutput

VerboseLog(verbose, line) == IF verbose THEN <<line>> ELSE <<>>

Line(kind, text) == [kind |-> kind, text |-> text]

Init ==
    /\ variant \in Variants
    /\ flags \in {[fromLang |-> "en", toLang |-> t, apiToken |-> a, copyOutput |-> c,
                   verbose |-> vb, version |-> vs, args |-> ar] :
                     t \in ToLangs, a \in FlagTokens, c \in BOOLEAN, vb \in BOOLEAN,
                     vs \in BOOLEAN, ar \in SeqsUpTo(Words, MaxArgs)}
    /\ flags.version => HasVersionFlag(variant)
    /\ pc = "start"
    /\ stdin = StdinUnread
    /\ cfg = CfgUnread
    /\ textToTranslate = <<>>
    /\ token = ""
    /\ requests = <<>>
    /\ resp = NoResponse
    /\ translatedText = <<>>
    /\ err = Nil
    /\ stdout = <<>>
    /\ clipboard = <<>>
    /\ log = <<>>
    /\ exitCode = -1

(* After flag.Parse: -version prints the version and exits 0; otherwise     *)
(* verbose mode is announced.                                                *)
Start ==
    /\ pc = "start"
    /\ IF HasVersionFlag(variant) /\ flags.version
       THEN /\ stdout' = Append(stdout, Line("version", <<>>))
            /\ pc' = "exit_version"
            /\ exitCode' = 0
            /\ log' = log
       ELSE /\ log' = log \o VerboseLog(flags.verbose, "Verbose mode enabled.")
            /\ pc' = "input"
            /\ UNCHANGED <<stdout, exitCode>>
    /\ UNCHANGED <<variant, flags, stdin, cfg, textToTranslate, token, requests, resp,
                   translatedText, err, clipboard>>

(* Input resolution with positional arguments. *)
InputFromArgs ==
    /\ pc = "input"
    /\ Len(flags.args) > 0
    /\ textToTranslate' = ArgsText(variant, flags.args)
    /\ pc' = "cred"
    /\ UNCHANGED <<variant, flags, stdin, cfg, token, requests, resp, translatedText,
                   err, stdout, clipboard, log, exitCode>>

(* Input resolution without positional arguments: main.go gives up; the     *)
(* later revisions stat standard input and scan it unless it is a terminal. *)
InputNoArgs ==
    /\ pc = "input"
    /\ Len(flags.args) = 0
    /\ IF RejectsNoArgs(variant)
       THEN /\ log' = Append(log, "No text provided for translation.")
            /\ pc' = "exit_notext"
            /\ exitCode' = 1
            /\ UNCHANGED <<stdin, textToTranslate, stdout>>
       ELSE \E env \in StdinEnvs :
            /\ stdin' = env
            /\ IF env.stat = "err"
               THEN /\ stdout' = Append(stdout, Line("Error reading stdin:", <<>>))
                    /\ pc' = "exit_stdin"
                    /\ exitCode' = 1
                    /\ UNCHANGED textToTranslate
               ELSE /\ textToTranslate' = StdinText(env)
                    /\ pc' = "cred"
                    /\ UNCHANGED <<stdout, exitCode>>
            /\ UNCHANGED log
    /\ UNCHANGED <<variant, flags, cfg, token, requests, resp, translatedText, err,
                   clipboard>>

(* Credential resolution: the -a value, or else the configuration file. *)
ResolveToken ==
    /\ pc = "cred"
    /\ IF UsesConfig(flags.apiToken)
       THEN \E c \in CfgEnvs :
            LET r == loadTokenFromConfig(c)
            IN  /\ cfg' = c
                /\ IF ~r.err.isNil
                   THEN /\ log' = Append(log, "Failed to load API token: %v")
                        /\ pc' = "exit_config"
                        /\ exitCode' = 1
                        /\ UNCHANGED token
                   ELSE /\ token' = r.token
                        /\ log' = log \o VerboseLog(flags.verbose, "OpenAI Token: %s")
                        /\ pc' = "translate"
                        /\ UNCHANGED exitCode
       ELSE /\ token' = flags.apiToken
            /\ log' = log \o VerboseLog(flags.verbose, "OpenAI Token: %s")
            /\ pc' = "translate"
            /\ UNCHANGED <<cfg, exitCode>>
    /\ UNCHANGED <<variant, flags, stdin, textToTranslate, requests, resp,
                   translatedText, err, stdout, clipboard>>

(* The call of translate and main's check of its error. *)
Translate ==
    /\ pc = "translate"
    /\ \E r \in Responses :
       LET out == translate(flags.verbose, r)
       IN  /\ requests' = requests \o
                 Do(BuildRequest(token, flags.fromLang, flags.toLang, textToTranslate))
           /\ resp' = r
           /\ translatedText' = out.val
           /\ err' = out.err
           /\ IF ~out.err.isNil
              THEN /\ log' = log \o out.log \o <<"Translation failed: %v">>
                   /\ pc' = "exit_translate"
                   /\ exitCode' = 1
              ELSE /\ log' = log \o out.log
                   /\ pc' = "print"
                   /\ UNCHANGED exitCode
    /\ UNCHANGED <<variant, flags, stdin, cfg, textToTranslate, token, stdout, clipboard>>

(* fmt.Println(translatedText) *)
PrintResult ==
    /\ pc = "print"
    /\ stdout' = Append(stdout, Line("translation", translatedText))
    /\ pc' = "copy"
    /\ UNCHANGED <<variant, flags, stdin, cfg, textToTranslate, token, requests, resp,
                   translatedText, err, clipboard, log, exitCode>>

(* The clipboard copy, when enabled, and the return from main. main.go also *)
(* reports the copy on standard output.                                      *)
CopyAndExit ==
    /\ pc = "copy"
    /\ IF ShouldCopy(flags.copyOutput)
       THEN \E ok \in BOOLEAN :
            IF ok
            THEN /\ clipboard' = Append(clipboard, translatedText)
                 /\ stdout' = IF variant = "main.go"
                              THEN Append(stdout,
                                          Line("(Translation copied to clipboard)", <<>>))
                              ELSE stdout
                 /\ pc' = "exit_ok"
                 /\ exitCode' = 0
                 /\ UNCHANGED log
            ELSE /\ log' = Append(log, "Failed to copy translation to clipboard: %v")
                 /\ pc' = "exit_clipboard"
                 /\ exitCode' = 1
                 /\ UNCHANGED <<clipboard, stdout>>
       ELSE /\ pc' = "exit_ok"
            /\ exitCode' = 0
            /\ UNCHANGED <<clipboard, stdout, log>>
    /\ UNCHANGED <<variant, flags, stdin, cfg, textToTranslate, token, requests, resp,
                   translatedText, err>>

Next ==
    \/ Start
    \/ InputFromArgs
    \/ InputNoArgs
    \/ ResolveToken
    \/ Translate
    \/ PrintResult
    \/ CopyAndExit

Spec == Init /\ [][Next]_vars

----------------------------------------------------------------------------
(* main as a function: what a complete execution of revision v leaves       *)
(* behind, log aside, for the command line fl, standard input found as sIn, *)
(* the configuration file found as c, the outcome r of client.Do and the    *)
(* outcome clipOk of clipboard.WriteAll. An input main does not reach is    *)
(* not looked at.                                                            *)
Outcome(at, code, text, tok, reqs, val, e, out, clip) ==
    [pc |-> at, exitCode |-> code, textToTranslate |-> text, token |-> tok,
     requests |-> reqs, translatedText |-> val, err |-> e, stdout |-> out,
     clipboard |-> clip]

MainOutcome(v, fl, sIn, c, r, clipOk) ==
    IF HasVersionFlag(v) /\ fl.version THEN
        Outcome("exit_version", 0, <<>>, "", <<>>, <<>>, Nil,
                <<Line("version", <<>>)>>, <<>>)
    ELSE IF Len(fl.args) = 0 /\ RejectsNoArgs(v) THEN
        Outcome("exit_notext", 1, <<>>, "", <<>>, <<>>, Nil, <<>>, <<>>)
    ELSE IF Len(fl.args) = 0 /\ sIn.stat = "err" THEN
        Outcome("exit_stdin", 1, <<>>, "", <<>>, <<>>, Nil,
                <<Line("Error reading stdin:", <<>>)>>, <<>>)
    ELSE
    LET text == IF Len(fl.args) > 0 THEN ArgsText(v, fl.args) ELSE StdinText(sIn)
        loaded == loadTokenFromConfig(c)
    IN  IF UsesConfig(fl.apiToken) /\ ~loaded.err.isNil THEN
            Outcome("exit_config", 1, text, "", <<>>, <<>>, Nil, <<>>, <<>>)
        ELSE
        LET tok == IF UsesConfig(fl.apiToken) THEN loaded.token ELSE fl.apiToken
            reqs == Do(BuildRequest(tok, fl.fromLang, fl.toLang, text))
            res == translate(fl.verbose, r)
            printed == <<Line("translation", res.val)>>
        IN  IF ~res.err.isNil THEN
                Outcome("exit_translate", 1, text, tok, reqs, res.val, res.err,
                        <<>>, <<>>)
            ELSE IF ShouldCopy(fl.copyOutput) /\ ~clipOk THEN
                Outcome("exit_clipboard", 1, text, tok, reqs, res.val, Nil,
                        printed, <<>>)
            ELSE IF ShouldCopy(fl.copyOutput) THEN
                Outcome("exit_ok", 0, text, tok, reqs, res.val, Nil,
                        IF v = "main.go"
                        THEN printed \o <<Line("(Translation copied to clipboard)", <<>>)>>
                        ELSE printed,
                        <<res.val>>)
            ELSE
                Outcome("exit_ok", 0, text, tok, reqs, res.val, Nil, printed, <<>>)

----------------------------------------------------------------------------
(* Vocabulary of the properties. *)

ExitPoints ==
    {"exit_version", "exit_notext", "exit_stdin", "exit_config", "exit_translate",
     "exit_ok", "exit_clipboard"}

(* translate has returned. *)
Returned == resp.transport # "none"

(* translate has returned a translation. *)
Succeeded == Returned /\ err.isNil

(* A translated text has been printed. *)
PrintedTranslation == \E i \in 1..Len(stdout) : stdout[i].kind = "translation"

(* The response is a 200 whose body was read and parsed. *)
Parsed200 ==
    /\ resp.transport = "ok"
    /\ resp.status = 200
    /\ resp.readOk
    /\ resp.body.valid

(* error.message of the body, "" when the body has no error object. *)
BodyErrorMessage == IF resp.body.hasError THEN resp.body.error.message ELSE ""

AllSpace(s) == \A i \in 1..Len(s) : IsSpace(s[i])

(* t is s without its leading and trailing whitespace: s is t between two   *)
(* runs of whitespace, and t neither starts nor ends with whitespace.        *)
IsTrimOf(t, s) ==
    /\ \E i \in 0..Len(s) : \E j \in i..Len(s) :
          /\ t = SubSeq(s, i + 1, j)
          /\ AllSpace(SubSeq(s, 1, i))
          /\ AllSpace(SubSeq(s, j + 1, Len(s)))
    /\ Len(t) > 0 => ~IsSpace(t[1]) /\ ~IsSpace(t[Len(t)])

----------------------------------------------------------------------------
(* C1: a 200 response whose parsed body has a non-empty error.message makes *)
(* translate fail with exactly that message and return no text, whatever    *)
(* the choices array holds.                                                  *)
C1_InBandErrorSurfaced ==
    (Parsed200 /\ BodyErrorMessage # "") =>
        /\ ~err.isNil
        /\ err.msg = resp.body.error.message
        /\ translatedText = <<>>
        /\ pc = "exit_translate"
        /\ ~PrintedTranslation

C1_Witness ==
    /\ Parsed200
    /\ resp.body.error.message = "rate limit exceeded"
    /\ Len(resp.body.choices) = 2
    /\ err.msg = "rate limit exceeded"

(* C2: a response whose status is not 200 makes translate fail with the     *)
(* "unexpected status code" error carrying the status; the body is not      *)
(* interpreted: no translation comes back and the body's error.message is   *)
(* not the error.                                                            *)
C2_Non200IsStatusError ==
    (resp.transport = "ok" /\ resp.status # 200) =>
        /\ err = NewError("unexpected status code from OpenAI API: %d", resp.status, "")
        /\ translatedText = <<>>
        /\ pc = "exit_translate"
        /\ ~PrintedTranslation

C2_Witness ==
    /\ resp.transport = "ok"
    /\ resp.status = 201
    /\ resp.readOk /\ resp.body.valid
    /\ Len(resp.body.choices) > 0
    /\ BodyErrorMessage = "rate limit exceeded"
    /\ err.code = 201

(* C3: a 200 response with an empty error.message and at least one choice   *)
(* makes translate succeed with the content of the first choice, leading    *)
(* and trailing whitespace removed and the rest unchanged.                   *)
C3_FirstChoiceTrimmed ==
    (Parsed200 /\ BodyErrorMessage = "" /\ Len(resp.body.choices) > 0) =>
        /\ err.isNil
        /\ IsTrimOf(translatedText, resp.body.choices[1])

C3_Witness ==
    /\ Parsed200 /\ BodyErrorMessage = ""
    /\ resp.body.choices = << <<" ", "H", " ", "m", "\n">>, <<"H">> >>
    /\ translatedText = <<"H", " ", "m">>

(* C4, as claimed: translate returns a translation only if the parsed       *)
(* response's error object is unpopulated and choices is non-empty; zero    *)
(* choices and no error object fail with "no translation found".            *)
C4_Original ==
    /\ Succeeded =>
          /\ Unmarshal(resp.body).Error = [Message |-> "", Type |-> ""]
          /\ Len(resp.body.choices) > 0
    /\ (Parsed200 /\ ~resp.body.hasError /\ Len(resp.body.choices) = 0) =>
          err = NewError("no translation found in response", 0, "")

(* C4, amended: translate returns a translation only if the response is a   *)
(* parsed 200 whose error.message is empty (error.type is not looked at)    *)
(* and choices is non-empty; zero choices and an empty error.message fail   *)
(* with "no translation found".                                              *)
C4_SuccessOnlyWithoutErrorMessage ==
    /\ Succeeded =>
          /\ Parsed200
          /\ BodyErrorMessage = ""
          /\ Len(resp.body.choices) > 0
    /\ (Parsed200 /\ BodyErrorMessage = "" /\ Len(resp.body.choices) = 0) =>
          /\ err = NewError("no translation found in response", 0, "")
          /\ pc = "exit_translate"

C4_Witness ==
    /\ Succeeded
    /\ resp.body.hasError
    /\ resp.body.error.type = "server_error"
    /\ Len(resp.body.choices) = 1

(* C5: a token given with -a is preferred over the configuration file:    *)
(* the file is not consulted, the token in the Authorization header is the  *)
(* flag's value verbatim, and a configuration failure is fatal only when no *)
(* token was given.                                                          *)
C5_FlagTokenWins ==
    /\ flags.apiToken # "" =>
          /\ ~cfg.consulted
          /\ pc \in {"translate", "print", "copy"} \cup
                    {"exit_translate", "exit_ok", "exit_clipboard"} =>
                token = flags.apiToken
          /\ \A i \in 1..Len(requests) :
                requests[i].authorization = <<"Bearer ", flags.apiToken>>
    /\ pc = "exit_config" =>
          /\ flags.apiToken = ""
          /\ cfg.consulted
          /\ ~loadTokenFromConfig(cfg).err.isNil
          /\ exitCode = 1

C5_Witness ==
    /\ flags.apiToken = "sk-flag"
    /\ Len(requests) = 1
    /\ requests[1].authorization = <<"Bearer ", "sk-flag">>
    /\ ~cfg.consulted

(* The reference input resolver of C6: the arguments joined by single       *)
(* spaces when there are any; otherwise, for standard input that is no      *)
(* terminal, all its lines joined by single spaces.                          *)
ReferenceInputKnown == Len(flags.args) > 0 \/ stdin.stat = "pipe"

ReferenceInput ==
    IF Len(flags.args) > 0 THEN Join(flags.args, <<" ">>) ELSE Join(stdin.lines, <<" ">>)

(* C6, as claimed: once the input is resolved, the text equals the          *)
(* reference input resolver's result.                                        *)
C6_TextIsReferenceInput ==
    (pc \notin {"start", "input"} /\ pc \notin {"exit_version", "exit_notext", "exit_stdin"}
        /\ ReferenceInputKnown) =>
        textToTranslate = ReferenceInput

(* C7: after a successful translation the text is printed first and then,   *)
(* exactly when the copy option is on, the same text is written to the      *)
(* clipboard; a failed clipboard write ends the process with a non-zero     *)
(* status, and otherwise it exits 0 having printed the translated line.     *)
C7_PrintThenCopy ==
    /\ pc = "copy" => clipboard = <<>>
    /\ pc \in {"copy", "exit_ok", "exit_clipboard"} =>
          /\ Succeeded
          /\ stdout[1] = Line("translation", translatedText)
    /\ clipboard # <<>> =>
          /\ flags.copyOutput
          /\ clipboard = <<translatedText>>
          /\ stdout[1] = Line("translation", translatedText)
    /\ pc = "exit_clipboard" => flags.copyOutput /\ exitCode = 1 /\ clipboard = <<>>
    /\ pc = "exit_ok" =>
          /\ exitCode = 0
          /\ flags.copyOutput <=> clipboard = <<translatedText>>

C7_Witness ==
    /\ pc = "exit_ok"
    /\ flags.copyOutput
    /\ translatedText = <<"H", " ", "m">>
    /\ clipboard = <<translatedText>>
    /\ stdout[1] = Line("translation", translatedText)

(* The failures of the stages, as the environment and the code define them. *)
StdinFailed ==
    \/ stdin.stat = "err"
    \/ stdin.stat = "pipe" /\ stdin.stop < Len(stdin.lines)

ConfigFailed == cfg.consulted /\ ~loadTokenFromConfig(cfg).err.isNil

TranslateFailed == Returned /\ ~err.isNil

(* C8, as claimed: an error in any stage ends the process at once with a    *)
(* non-zero status: no later stage runs, and after a failure before the     *)
(* output no translated text is printed and the clipboard is not written.   *)
C8_EveryErrorIsFatal ==
    /\ StdinFailed =>
          /\ pc = "exit_stdin" /\ exitCode = 1
          /\ ~cfg.consulted /\ requests = <<>>
          /\ ~PrintedTranslation /\ clipboard = <<>>
    /\ ConfigFailed =>
          /\ pc = "exit_config" /\ exitCode = 1
          /\ requests = <<>>
          /\ ~PrintedTranslation /\ clipboard = <<>>
    /\ TranslateFailed =>
          /\ pc = "exit_translate" /\ exitCode = 1
          /\ ~PrintedTranslation /\ clipboard = <<>>
    /\ pc = "exit_clipboard" => exitCode = 1

(* C9, as claimed: a complete execution has sent exactly one request. *)
C9_Original == pc \in ExitPoints => Len(requests) = 1

(* C9, amended: no execution sends more than one request; a complete        *)
(* execution has sent exactly one if it reached translate (it ended with a  *)
(* failed translation, a failed clipboard write or success) and none if it  *)
(* ended before (version query, no text in main.go, stdin Stat failure,     *)
(* credential failure).                                                      *)
C9_AtMostOneRequest ==
    /\ Len(requests) <= 1
    /\ Len(requests) = 1 <=> Returned
    /\ pc \in {"exit_translate", "exit_ok", "exit_clipboard"} => Len(requests) = 1
    /\ pc \in {"exit_version", "exit_notext", "exit_stdin", "exit_config"} =>
          requests = <<>>

C9_Witness ==
    /\ pc = "exit_translate"
    /\ resp.status = 500
    /\ Len(requests) = 1

(* Neither source yields text: no positional arguments, and standard input  *)
(* is a terminal or the scanner delivered no line of it.                     *)
NoTextFromStdin == stdin.stat \in {"tty", "pipe"} /\ ScanLines(stdin) = <<>>

EmptyTextRequest(r) ==
    r.body.messages[2].content =
        <<"Translate this from ", flags.fromLang, " to ", flags.toLang, ": ">>

(* C10, as claimed: with no positional arguments and no text from standard  *)
(* input the program does not reject the input; it goes on to credential    *)
(* resolution, and the request is made with the empty string.               *)
C10_Original ==
    (Len(flags.args) = 0 /\ pc \notin {"start", "input", "exit_version", "exit_stdin"}
        /\ (stdin.stat = "unread" \/ NoTextFromStdin)) =>
        /\ pc # "exit_notext"
        /\ textToTranslate = <<>>
        /\ \A i \in 1..Len(requests) : EmptyTextRequest(requests[i])

(* C10, amended: the revisions that read standard input (part_000) never    *)
(* reject for lack of text: with no positional arguments and no text from   *)
(* standard input they go on to credential resolution and any request is    *)
(* made with the empty string; main.go reads no standard input and rejects  *)
(* an empty argument list with a fatal error, sending no request.           *)
C10_EmptyTextGoesOn ==
    /\ variant # "main.go" =>
          /\ pc # "exit_notext"
          /\ (Len(flags.args) = 0 /\ NoTextFromStdin) =>
                /\ pc \in {"cred", "translate", "print", "copy", "exit_config",
                           "exit_translate", "exit_ok", "exit_clipboard"}
                /\ textToTranslate = <<>>
                /\ Returned => Len(requests) = 1
                /\ \A i \in 1..Len(requests) : EmptyTextRequest(requests[i])
    /\ (variant = "main.go" /\ Len(flags.args) = 0 /\ pc \notin {"start", "input"}) =>
          /\ pc = "exit_notext"
          /\ exitCode = 1
          /\ stdin = StdinUnread
          /\ requests = <<>>

C10_Witness ==
    /\ variant = "part_000b"
    /\ Len(flags.args) = 0
    /\ stdin.stat = "tty"
    /\ Len(requests) = 1
    /\ EmptyTextRequest(requests[1])

(* What the execution has left behind, log aside. *)
Observed ==
    Outcome(pc, exitCode, textToTranslate, token, requests, translatedText, err,
            stdout, clipboard)

(* C11: verbose mode does not change control flow: a complete execution    *)
(* has sent the request, got from translate the value or error, printed     *)
(* the text, written the clipboard and exited with the status that main     *)
(* yields on the same command line, inputs, credential sources and HTTP     *)
(* response with the verbose flag set either way; only the log differs.     *)
C11_VerboseChangesOnlyLog ==
    pc \in ExitPoints =>
        \A vb \in BOOLEAN :
            Observed = MainOutcome(variant, [flags EXCEPT !.verbose = vb], stdin, cfg,
                                   resp, pc # "exit_clipboard")

C11_Witness ==
    /\ pc = "exit_translate"
    /\ flags.verbose
    /\ Parsed200 /\ BodyErrorMessage = "rate limit exceeded"
    /\ Len(resp.body.choices) > 0
    /\ log = <<"Verbose mode enabled.", "OpenAI Token: %s", "Request Payload: %s",
               "OpenAI API Error: %s (Type: %s)", "Translation failed: %v">>
    /\ Observed = MainOutcome(variant, [flags EXCEPT !.verbose = FALSE], stdin, cfg,
                              resp, TRUE)

====
